---- MODULE Spec2Model ----
(***************************************************************************)
(* Model of pydoctorsender's response decoding: xml2dict.parse turns the   *)
(* XML of a Doctorsender API answer into nested dicts, lists and strings,  *)
(* DrsResponse normalises the envelope keys and, on every read of          *)
(* .content, scans the payload records for the error flag and unwraps the  *)
(* msg record with _key_value.                                             *)
(*                                                                         *)
(* Python values are tagged tuples <<type, content>>: Str, Int, Dict (an    *)
(* insertion-ordered sequence of <<key, value>> pairs), List, NoneV; a     *)
(* raised exception is the value Exc(type, argument).                      *)
(***************************************************************************)
EXTENDS Naturals, Sequences, FiniteSets

VARIABLES xml, dict, pc, res_list, i, res_dict, ele, result, previous, call,
          comparator, sent

vars == <<xml, dict, pc, res_list, i, res_dict, ele, result, previous, call,
          comparator, sent>>

----------------------------------------------------------------------------
(* Python values *)

Str(s) == <<"str", s>>

Int(n) == <<"int", n>>

Dict(pairs) == <<"dict", pairs>>

List(elems) == <<"list", elems>>

NoneV == <<"none", "None">>

Exc(type, argument) == <<"exc", type, argument>>

(* the type of a value, and what it holds *)
TypeOf(x) == x[1]

Val(x) == x[2]

IsExc(x) == TypeOf(x) = "exc"

(* a local name that has not been assigned, a result that has not been read *)
Unbound == <<"unbound", "unbound">>

(* d[k] = x on a dict's pairs: an existing key keeps its place *)
SetItem(pairs, k, x) ==
  IF \E j \in 1..Len(pairs) : pairs[j][1] = k
  THEN [j \in 1..Len(pairs) |-> IF pairs[j][1] = k THEN <<k, x>> ELSE pairs[j]]
  ELSE Append(pairs, <<k, x>>)

HasKey(pairs, k) == \E j \in 1..Len(pairs) : pairs[j][1] = k

Lookup(pairs, k) == pairs[CHOOSE j \in 1..Len(pairs) : pairs[j][1] = k][2]

(* d.pop(k) *)
DelItem(pairs, k) == SelectSeq(pairs, LAMBDA p : p[1] # k)

(* x[name] for a string name: KeyError on a dict without it, TypeError on a
   str or a list (their indices must be integers), TypeError on None *)
GetItem(x, name) ==
  IF IsExc(x) THEN x
  ELSE IF TypeOf(x) = "dict"
       THEN IF HasKey(Val(x), Str(name)) THEN Lookup(Val(x), Str(name))
            ELSE Exc("KeyError", Str(name))
       ELSE Exc("TypeError", NoneV)

(* hash(x): dicts and lists are unhashable *)
Hashable(x) == TypeOf(x) \notin {"dict", "list"}

----------------------------------------------------------------------------
(* Strings.  TLC strings are atomic, so the string operations of the code
   are tabulated over the texts the model uses. *)

EnvNs == "{http://schemas.xmlsoap.org/soap/envelope/}"

EnvNames == {"Envelope", "Body", "Header"}

(* '{http://schemas.xmlsoap.org/soap/envelope/}' in k *)
ContainsEnvNs(k) == \E n \in EnvNames : k = EnvNs \o n

(* k.replace('{http://schemas.xmlsoap.org/soap/envelope/}', '') *)
ReplaceEnvNs(k) ==
  IF ContainsEnvNs(k) THEN CHOOSE n \in EnvNames : k = EnvNs \o n ELSE k

(* text.strip() *)
strip(s) ==
  CASE s = " true " -> "true"
    [] s = "  " -> ""
    [] OTHER -> s

(* the characters of a string, as iterating it yields them *)
Chars(s) ==
  CASE s = "" -> <<>>
    [] s = "x" -> <<"x">>
    [] s = "raw" -> <<"r", "a", "w">>
    [] s = "true" -> <<"t", "r", "u", "e">>

----------------------------------------------------------------------------
(* XML elements, as xml.etree.ElementTree gives them: a tag (the namespace
   in braces before the local name), a text (None or a string) and the
   child elements in document order *)

Elem(tag, text, children) == [tag |-> tag, text |-> text, children |-> children]

Leaf(tag, s) == Elem(tag, Str(s), <<>>)

Node(tag, children) == Elem(tag, NoneV, children)

RECURSIVE parse(_)

(* dict(p_childs): a repeated key keeps its first place and its last value *)
RECURSIVE DictOf(_, _)
DictOf(pairs, more) ==
  IF more = <<>> THEN pairs
  ELSE DictOf(SetItem(pairs, more[1][1], more[1][2]), Tail(more))

(* mutant of parse: the test for repeated tags left out, the children always
   collected into a dict *)
parseAlwaysDict(e) ==
  LET n == Len(e.children)
      p_childs == [j \in 1..n |-> <<Str(e.children[j].tag), parse(e.children[j])>>]
  IN IF n = 0
     THEN IF e.text # NoneV THEN Str(strip(Val(e.text))) ELSE Str("")
     ELSE Dict(DictOf(<<>>, p_childs))

(* mutant of parse: len(set(tags)) <= len(tags), the children always
   collected into a list *)
parseAlwaysList(e) ==
  LET n == Len(e.children)
      p_childs == [j \in 1..n |-> <<Str(e.children[j].tag), parse(e.children[j])>>]
  IN IF n = 0
     THEN IF e.text # NoneV THEN Str(strip(Val(e.text))) ELSE Str("")
     ELSE List([j \in 1..n |-> Dict(<<p_childs[j]>>)])

parse(e) ==
  LET n == Len(e.children)
      tags == {e.children[j].tag : j \in 1..n}
      p_childs == [j \in 1..n |-> <<Str(e.children[j].tag), parse(e.children[j])>>]
  IN IF n = 0
     THEN IF e.text # NoneV THEN Str(strip(Val(e.text))) ELSE Str("")
     ELSE IF Cardinality(tags) < n
          THEN List([j \in 1..n |-> Dict(<<p_childs[j]>>)])
          ELSE Dict(p_childs)

xml2dict(root) == Dict(<< <<Str(root.tag), parse(root)>> >>)

----------------------------------------------------------------------------
(* DrsResponse *)

(* the pairs of d once _remove_env_str(d) has run: the loop returns inside
   its first iteration, so only the first entry is visited; a dict value is
   rewritten in place, and a renamed key moves to the end of d *)
RECURSIVE EnvStrRewritten(_)
EnvStrRewritten(pairs) ==
  IF pairs = <<>> THEN pairs
  ELSE LET k == pairs[1][1]
           v == pairs[1][2]
           v1 == IF TypeOf(v) = "dict" THEN Dict(EnvStrRewritten(Val(v))) ELSE v
           d1 == [pairs EXCEPT ![1] = <<k, v1>>]
       IN IF ContainsEnvNs(Val(k))
          THEN SetItem(DelItem(d1, k), Str(ReplaceEnvNs(Val(k))), v1)
          ELSE d1

(* what _remove_env_str(d) returns: d itself, or None when the loop body
   never runs *)
remove_env_str(d) ==
  IF Val(d) = <<>> THEN NoneV ELSE Dict(EnvStrRewritten(Val(d)))

(* a == b on Python values: dicts compare without regard to order *)
RECURSIVE PyEq(_, _)
PyEq(a, b) ==
  IF TypeOf(a) # TypeOf(b) THEN FALSE
  ELSE CASE TypeOf(a) = "dict" ->
              /\ Len(Val(a)) = Len(Val(b))
              /\ \A j \in 1..Len(Val(a)) :
                    /\ HasKey(Val(b), Val(a)[j][1])
                    /\ PyEq(Val(a)[j][2], Lookup(Val(b), Val(a)[j][1]))
         [] TypeOf(a) = "list" ->
              /\ Len(Val(a)) = Len(Val(b))
              /\ \A j \in 1..Len(Val(a)) : PyEq(Val(a)[j], Val(b)[j])
         [] OTHER -> a = b

(* res_dict.update(x) on the pairs of res_dict, for the values _key_value
   returns (a dict, a str or None): a dict is merged; a str is iterated as a
   sequence of pairs, so the empty string adds nothing and any other string
   fails on its first character (length 1, 2 is required); None is not
   iterable *)
RECURSIVE Merge(_, _)
Merge(pairs, more) ==
  IF more = <<>> THEN pairs
  ELSE Merge(SetItem(pairs, more[1][1], more[1][2]), Tail(more))

DictUpdate(pairs, x) ==
  CASE TypeOf(x) = "dict" -> Dict(Merge(pairs, Val(x)))
    [] TypeOf(x) = "str" ->
         IF Chars(Val(x)) = <<>> THEN Dict(pairs) ELSE Exc("ValueError", NoneV)
    [] TypeOf(x) = "none" -> Exc("TypeError", NoneV)

(* kv_pair['item'][name] *)
ItemField(kv_pair, name) == GetItem(GetItem(kv_pair, "item"), name)

(* mutant of NameFields: 'language' forgotten *)
NameFieldsOnlyName == {Str("name")}

(* the display-name fields of the generic composite case *)
NameFields == {Str("name"), Str("language")}

RECURSIVE key_value(_), UserList(_, _, _, _), Generic(_, _, _, _), Fold(_, _, _)

(* mutant of OneItem: the value unwrapped by a recursive call *)
OneItemUnwrapping(item) ==
  LET k == GetItem(item, "key")
      v == GetItem(item, "value")
  IN IF IsExc(k) THEN k
     ELSE IF IsExc(v) THEN v
     ELSE IF IsExc(key_value(v)) THEN key_value(v)
     ELSE IF ~Hashable(k) THEN Exc("TypeError", NoneV)
     ELSE Dict(<< <<k, key_value(v)>> >>)

(* mutant of OneItem: key and value swapped *)
OneItemSwapped(item) ==
  LET k == GetItem(item, "key")
      v == GetItem(item, "value")
  IN IF IsExc(k) THEN k
     ELSE IF IsExc(v) THEN v
     ELSE IF ~Hashable(v) THEN Exc("TypeError", NoneV)
     ELSE Dict(<< <<v, k>> >>)

(* {ele['item']['key']: ele['item']['value']} *)
OneItem(item) ==
  LET k == GetItem(item, "key")
      v == GetItem(item, "value")
  IN IF IsExc(k) THEN k
     ELSE IF IsExc(v) THEN v
     ELSE IF ~Hashable(k) THEN Exc("TypeError", NoneV)
     ELSE Dict(<< <<k, v>> >>)

(* mutant of SameAsListName: the filter of line 50 left out *)
SameAsListNameNever(val, k) == FALSE

(* kv_pair['item']['value'] != k is false: the record repeats the list name *)
SameAsListName(val, k) == PyEq(val, k)

(* mutant of KeyValueStr: the str branch missing, so the call falls to the
   final else and returns None *)
KeyValueStrMissing(e) == NoneV

(* elif type(ele) == str: return ele *)
KeyValueStr(e) == e


(* case UserLists: the loop over ele['item'] from record j on, v being the
   dict built so far, then return {k: v} *)
UserList(records, j, k, v) ==
  IF j > Len(records)
  THEN IF Hashable(k) THEN Dict(<< <<k, Dict(v)>> >>) ELSE Exc("TypeError", NoneV)
  ELSE LET val == ItemField(records[j], "value")
       IN IF IsExc(val) THEN val
          ELSE IF SameAsListName(val, k) THEN UserList(records, j + 1, k, v)
          ELSE LET r == key_value(records[j])
                   u == DictUpdate(v, r)
               IN IF IsExc(r) THEN r
                  ELSE IF IsExc(u) THEN u
                  ELSE UserList(records, j + 1, k, Val(u))

(* case languages, categories, countries: the loop over ele['item'] from
   record j on, v being Unbound until a display-name field is met, then
   return {k: v} *)
Generic(records, j, k, v) ==
  IF j > Len(records)
  THEN IF v = Unbound THEN Exc("UnboundLocalError", Str("v"))
       ELSE IF Hashable(k) THEN Dict(<< <<k, v>> >>)
       ELSE Exc("TypeError", NoneV)
  ELSE LET key == ItemField(records[j], "key")
           val == ItemField(records[j], "value")
       IN IF IsExc(key) THEN key
          ELSE IF ~Hashable(key) THEN Exc("TypeError", NoneV)
          ELSE IF key \in NameFields
               THEN IF IsExc(val) THEN val ELSE Generic(records, j + 1, k, val)
               ELSE Generic(records, j + 1, k, v)

(* mutant of Composite: v set to None before the loop of the generic case *)
CompositeNoneDefault(records) ==
  IF records = <<>> THEN Exc("IndexError", NoneV)
  ELSE LET key0 == ItemField(records[1], "key")
           k == ItemField(records[1], "value")
       IN IF IsExc(key0) THEN key0
          ELSE IF IsExc(k) THEN k
          ELSE IF PyEq(key0, Str("listName")) THEN UserList(records, 1, k, <<>>)
          ELSE Generic(records, 1, k, NoneV)

(* ele['item'] is a list *)
Composite(records) ==
  IF records = <<>> THEN Exc("IndexError", NoneV)
  ELSE LET key0 == ItemField(records[1], "key")
           k == ItemField(records[1], "value")
       IN IF IsExc(key0) THEN key0
          ELSE IF IsExc(k) THEN k
          ELSE IF PyEq(key0, Str("listName")) THEN UserList(records, 1, k, <<>>)
          ELSE Generic(records, 1, k, Unbound)

(* ele is a list: the loop from element j on (enumerate's i is j - 1), res
   being the pairs of res_dict so far.  TypeError and ValueError, raised by
   the call or by the update, are caught and the element is stored under
   its index; an exception of the handler itself is not caught *)
Fold(elems, j, res) ==
  IF j > Len(elems) THEN Dict(res)
  ELSE LET r == key_value(elems[j])
           u == IF IsExc(r) THEN r ELSE DictUpdate(res, r)
           raw == GetItem(elems[j], "item")
       IN IF ~IsExc(u) THEN Fold(elems, j + 1, Val(u))
          ELSE IF u[2] \notin {"TypeError", "ValueError"} THEN u
          ELSE IF IsExc(raw) THEN raw
          ELSE Fold(elems, j + 1, SetItem(res, Int(j - 1), raw))

key_value(e) ==
  CASE TypeOf(e) = "dict" ->
         LET item == GetItem(e, "item")
         IN IF IsExc(item) THEN item
            ELSE CASE TypeOf(item) = "dict" -> OneItem(item)
                   [] TypeOf(item) = "str" -> item
                   [] TypeOf(item) = "list" -> Composite(Val(item))
                   [] OTHER -> Exc("DrsParserError", NoneV)
    [] TypeOf(e) = "list" -> Fold(Val(e), 1, <<>>)
    [] TypeOf(e) = "str" -> KeyValueStr(e)
    [] OTHER -> NoneV

----------------------------------------------------------------------------
(* The responses the model decodes *)

MaxRecords == 3

MaxChildren == 3

SeqsOf(S, lo, hi) == UNION {[1..n -> S] : n \in lo..hi}

Value(s) == Leaf("value", s)

Item(k, value) == Node("item", <<Leaf("key", k), value>>)

Rec(k, s) == Item(k, Value(s))

(* the fields of one composite object *)
Fields ==
  { Rec("listName", "L"), Rec("languageId", "3"), Rec("language", "ENG"),
    Rec("id", "3"), Rec("id", "4"), Rec("name", "L"), Leaf("item", "raw") }

(* the children of a msg value: clean records, bare items, an element that
   is no item, an item without value, an item with a structured key, an
   item with a structured value, composite objects *)
Children ==
  { Rec("a", "1"), Rec("count", "42"),
    Leaf("item", "raw"), Leaf("item", ""), Leaf("foo", "x"),
    Node("item", <<Leaf("key", "a")>>),
    Item("a", Node("value", <<Rec("b", "1")>>)),
    Node("item", <<Node("key", <<Leaf("a", "1")>>), Value("1")>>),
    Node("item", <<Rec("id", "3"), Rec("name", "L")>>),
    Node("item", <<Rec("id", "3"), Rec("id", "4")>>) }

MsgValues ==
  { Value("true"), Value("x"), Value(""), Value(" true "), Node("value", <<>>) }
  \cup { Node("value", <<Node("item", fs)>>) : fs \in SeqsOf(Fields, 1, MaxChildren) }
  \cup { Node("value", cs) : cs \in SeqsOf(Children, 1, MaxChildren) }
  \cup { Node("value", <<Item("a", Node("value", <<Rec("a", "1"), Rec("count", "42")>>))>>) }

(* the records the scan of the payload tells apart *)
ScanRecords ==
  { Rec("error", "true"), Rec("error", "false"), Rec("msg", "true"),
    Item("msg", Node("value", <<Leaf("foo", "x")>>)), Rec("a", "boom"),
    Leaf("item", "raw") }

Payloads ==
  SeqsOf(ScanRecords, 0, MaxRecords)
  \cup { <<Rec("error", "false"), Item("msg", v)>> : v \in MsgValues }

Return(payload) == Node("webserviceReturn", payload)

Envelope(ret) ==
  Node(EnvNs \o "Envelope",
       << Node(EnvNs \o "Body", << Node("{ns1}webserviceResponse", <<ret>>) >>) >>)

OkPayload == <<Rec("error", "false"), Rec("msg", "true")>>

(* answers whose envelope is not the expected one *)
OtherEnvelopes ==
  { Envelope(Leaf("webserviceReturn", "x")),
    Envelope(Leaf("other", "x")),
    Node(EnvNs \o "Envelope", << Node(EnvNs \o "Body", << Leaf("{ns1}other", "x") >>) >>),
    Node(EnvNs \o "Envelope", << Leaf(EnvNs \o "Body", "x") >>),
    Node(EnvNs \o "Envelope", << Leaf(EnvNs \o "Header", "x") >>),
    Node(EnvNs \o "Envelope",
         << Leaf(EnvNs \o "Header", "x"),
            Node(EnvNs \o "Body",
                 << Node("{ns1}webserviceResponse", <<Return(OkPayload)>>) >>) >>),
    Node(EnvNs \o "Envelope",
         << Node(EnvNs \o "Body",
                 << Node("{ns1}webserviceResponse", <<Return(OkPayload)>>) >>),
            Leaf(EnvNs \o "Header", "x") >>),
    Leaf(EnvNs \o "Envelope", "x"),
    Node("Envelope", << Node("Body", << Node("{ns1}webserviceResponse", <<Return(OkPayload)>>) >>) >>) }

Responses == { Envelope(Return(p)) : p \in Payloads } \cup OtherEnvelopes

----------------------------------------------------------------------------
(* The state: self.xml and self.dict of one DrsResponse, and the frame of a
   read of .content (_drs_reduce_dict): res_list, the index i of enumerate,
   res_dict, the argument ele of the last _key_value(...) call of line 93,
   and what the read returned or raised; previous is what the read before
   this one returned or raised, call the client method that made the request
   ("none" when the DrsResponse is used on its own), comparator the argument
   of segment_add_condition and sent the comparator code in the body of the
   request it posted (unbound when no request was posted) *)

Init ==
  /\ xml \in Responses
  /\ dict = Unbound
  /\ pc = "new"
  /\ res_list = Unbound
  /\ i = 0
  /\ res_dict = Unbound
  /\ ele = Unbound
  /\ result = Unbound
  /\ previous = Unbound
  /\ call = "none"
  /\ comparator = Unbound
  /\ sent = Unbound

(* DrsResponse.__init__: self.xml = res.content; self._xml2dict() *)
DrsResponseInit ==
  /\ pc = "new"
  /\ dict' = remove_env_str(xml2dict(xml))
  /\ pc' = "idle"
  /\ UNCHANGED <<xml, res_list, i, res_dict, ele, result, previous, call, comparator, sent>>

(* iterating res_list: the elements of a list, the keys of a dict, the
   characters of a str *)
Iter(x) ==
  CASE TypeOf(x) = "list" -> Val(x)
    [] TypeOf(x) = "dict" -> [j \in 1..Len(Val(x)) |-> Val(x)[j][1]]
    [] TypeOf(x) = "str" -> [j \in 1..Len(Chars(Val(x))) |-> Str(Chars(Val(x))[j])]

(* self.dict['Envelope']['Body']['{ns1}webserviceResponse']['webserviceReturn'] *)
ResList(d) ==
  GetItem(GetItem(GetItem(GetItem(d, "Envelope"), "Body"),
                  "{ns1}webserviceResponse"), "webserviceReturn")

(* mutant of ContentEnter: the read normalises self.dict once more *)
ContentEnterRenormalising ==
  /\ pc \in {"idle", "done"}
  /\ previous' = result
  /\ i' = 0
  /\ res_dict' = Unbound
  /\ ele' = Unbound
  /\ dict' = remove_env_str(dict)
  /\ IF IsExc(ResList(dict'))
     THEN /\ result' = ResList(dict')
          /\ res_list' = Unbound
          /\ pc' = "done"
     ELSE /\ result' = Unbound
          /\ res_list' = ResList(dict')
          /\ pc' = "scan"
  /\ UNCHANGED <<xml, call, comparator, sent>>

(* a read of .content starts: line 83 *)
ContentEnter ==
  /\ pc \in {"idle", "done"}
  /\ previous' = result
  /\ i' = 0
  /\ res_dict' = Unbound
  /\ ele' = Unbound
  /\ IF IsExc(ResList(dict))
     THEN /\ result' = ResList(dict)
          /\ res_list' = Unbound
          /\ pc' = "done"
     ELSE /\ result' = Unbound
          /\ res_list' = ResList(dict)
          /\ pc' = "scan"
  /\ UNCHANGED <<xml, dict, call, comparator, sent>>

(* mutant of ErrorMessage: res_list[i] instead of res_list[i + 1] *)
ErrorMessageOfErrorRecord(seq, n) == ItemField(seq[n + 1], "value")

(* res_list[i + 1]['item']['value'], n being the index i of the error record *)
ErrorMessage(seq, n) ==
  IF n + 2 > Len(seq) THEN Exc("IndexError", NoneV)
  ELSE ItemField(seq[n + 2], "value")

(* what one iteration of the loop of lines 85-93 does with sub_dict, the
   element at index n of seq: "raise" with the exception, "msg" with the
   argument and the result of _key_value, or "next" *)
ScanOutcome(seq, n) ==
  LET sub_dict == seq[n + 1]
      key == ItemField(sub_dict, "key")
      val == ItemField(sub_dict, "value")
      message == ErrorMessage(seq, n)
  IN IF IsExc(key) THEN <<"raise", key>>
     ELSE IF PyEq(key, Str("error"))
          THEN IF IsExc(val) THEN <<"raise", val>>
               ELSE IF PyEq(val, Str("true"))
                    THEN IF IsExc(message) THEN <<"raise", message>>
                         ELSE <<"raise", Exc("DrsReturnError", message)>>
                    ELSE <<"next">>
          ELSE IF PyEq(key, Str("msg"))
               THEN IF IsExc(val) THEN <<"raise", val>>
                    ELSE IF IsExc(key_value(val)) THEN <<"raise", key_value(val), val>>
                    ELSE <<"msg", key_value(val), val>>
               ELSE <<"next">>

(* one iteration of the loop over res_list *)
ScanStep ==
  /\ pc = "scan"
  /\ i < Len(Iter(res_list))
  /\ LET o == ScanOutcome(Iter(res_list), i)
     IN /\ ele' = IF Len(o) = 3 THEN o[3] ELSE ele
        /\ IF o[1] = "raise"
           THEN /\ result' = o[2]
                /\ pc' = "done"
                /\ UNCHANGED <<i, res_dict>>
           ELSE /\ res_dict' = IF o[1] = "msg" THEN o[2] ELSE res_dict
                /\ i' = i + 1
                /\ UNCHANGED <<pc, result>>
  /\ UNCHANGED <<xml, dict, res_list, previous, call, comparator, sent>>

(* the loop is over: return res_dict, line 95 *)
ContentReturn ==
  /\ pc = "scan"
  /\ i = Len(Iter(res_list))
  /\ result' = IF res_dict = Unbound THEN Exc("UnboundLocalError", Str("res_dict"))
               ELSE res_dict
  /\ pc' = "done"
  /\ UNCHANGED <<xml, dict, res_list, i, res_dict, ele, previous, call, comparator, sent>>

Next == DrsResponseInit \/ ContentEnter \/ ScanStep \/ ContentReturn

Spec == Init /\ [][Next]_vars

----------------------------------------------------------------------------
(* _drs_reduce_dict as a function of self.dict: what a read returns or raises *)

RECURSIVE Scan(_, _, _)
Scan(seq, n, rd) ==
  IF n = Len(seq)
  THEN IF rd = Unbound THEN Exc("UnboundLocalError", Str("res_dict")) ELSE rd
  ELSE LET o == ScanOutcome(seq, n)
       IN IF o[1] = "raise" THEN o[2]
          ELSE Scan(seq, n + 1, IF o[1] = "msg" THEN o[2] ELSE rd)

drs_reduce_dict(d) ==
  IF IsExc(ResList(d)) THEN ResList(d) ELSE Scan(Iter(ResList(d)), 0, Unbound)

(* DrsResponse(res).content: the decode of one answer on its own *)
Decode(x) == drs_reduce_dict(remove_env_str(xml2dict(x)))

----------------------------------------------------------------------------
(* Two threads, each decoding its own answer: every variable of the decode
   is a function of the thread, and a step is one thread's parse, namespace
   normalisation, or step of its read *)

Threads == {1, 2}

ThreadResponses ==
  OtherEnvelopes
  \cup { Envelope(Return(<<Rec("error", "false"), Item("msg", v)>>)) :
           v \in { Value("true"),
                   Node("value", <<Rec("a", "1"), Rec("count", "42")>>),
                   Node("value", <<Node("item", <<Rec("id", "3"), Rec("name", "L")>>)>>) } }
  \cup { Envelope(Return(<<Rec("error", "true"), Rec("a", "boom")>>)),
         Envelope(Return(<<Rec("msg", "true")>>)) }

ThreadsInit ==
  /\ xml \in [Threads -> ThreadResponses]
  /\ dict = [t \in Threads |-> Unbound]
  /\ pc = [t \in Threads |-> "new"]
  /\ res_list = [t \in Threads |-> Unbound]
  /\ i = [t \in Threads |-> 0]
  /\ res_dict = [t \in Threads |-> Unbound]
  /\ ele = [t \in Threads |-> Unbound]
  /\ result = [t \in Threads |-> Unbound]
  /\ previous = Unbound
  /\ call = "none"
  /\ comparator = Unbound
  /\ sent = Unbound

(* mutant of ThreadParse: dict kept in one place for all DrsResponse objects *)
ThreadParseShared(t) ==
  /\ pc[t] = "new"
  /\ dict' = [u \in Threads |-> xml2dict(xml[t])]
  /\ pc' = [pc EXCEPT ![t] = "parsed"]
  /\ UNCHANGED <<xml, res_list, i, res_dict, ele, result, previous, call, comparator, sent>>

(* d = xml2dict(self.xml) *)
ThreadParse(t) ==
  /\ pc[t] = "new"
  /\ dict' = [dict EXCEPT ![t] = xml2dict(xml[t])]
  /\ pc' = [pc EXCEPT ![t] = "parsed"]
  /\ UNCHANGED <<xml, res_list, i, res_dict, ele, result, previous, call, comparator, sent>>

(* self.dict = self._remove_env_str(d) *)
ThreadNormalise(t) ==
  /\ pc[t] = "parsed"
  /\ dict' = [dict EXCEPT ![t] = remove_env_str(dict[t])]
  /\ pc' = [pc EXCEPT ![t] = "idle"]
  /\ UNCHANGED <<xml, res_list, i, res_dict, ele, result, previous, call, comparator, sent>>

(* the thread's read of .content starts *)
ThreadEnter(t) ==
  /\ pc[t] = "idle"
  /\ IF IsExc(ResList(dict[t]))
     THEN /\ result' = [result EXCEPT ![t] = ResList(dict[t])]
          /\ pc' = [pc EXCEPT ![t] = "done"]
          /\ UNCHANGED res_list
     ELSE /\ res_list' = [res_list EXCEPT ![t] = ResList(dict[t])]
          /\ pc' = [pc EXCEPT ![t] = "scan"]
          /\ UNCHANGED result
  /\ UNCHANGED <<xml, dict, i, res_dict, ele, previous, call, comparator, sent>>

(* one iteration of the thread's loop over res_list *)
ThreadScan(t) ==
  /\ pc[t] = "scan"
  /\ i[t] < Len(Iter(res_list[t]))
  /\ LET o == ScanOutcome(Iter(res_list[t]), i[t])
     IN /\ ele' = IF Len(o) = 3 THEN [ele EXCEPT ![t] = o[3]] ELSE ele
        /\ IF o[1] = "raise"
           THEN /\ result' = [result EXCEPT ![t] = o[2]]
                /\ pc' = [pc EXCEPT ![t] = "done"]
                /\ UNCHANGED <<i, res_dict>>
           ELSE /\ res_dict' = IF o[1] = "msg" THEN [res_dict EXCEPT ![t] = o[2]]
                               ELSE res_dict
                /\ i' = [i EXCEPT ![t] = i[t] + 1]
                /\ UNCHANGED <<pc, result>>
  /\ UNCHANGED <<xml, dict, res_list, previous, call, comparator, sent>>

(* the thread's loop is over: return res_dict *)
ThreadReturn(t) ==
  /\ pc[t] = "scan"
  /\ i[t] = Len(Iter(res_list[t]))
  /\ result' = [result EXCEPT ![t] =
                  IF res_dict[t] = Unbound
                  THEN Exc("UnboundLocalError", Str("res_dict"))
                  ELSE res_dict[t]]
  /\ pc' = [pc EXCEPT ![t] = "done"]
  /\ UNCHANGED <<xml, dict, res_list, i, res_dict, ele, previous, call, comparator, sent>>

ThreadsNext ==
  \E t \in Threads :
    \/ ThreadParse(t)
    \/ ThreadNormalise(t)
    \/ ThreadEnter(t)
    \/ ThreadScan(t)
    \/ ThreadReturn(t)

SpecThreads == ThreadsInit /\ [][ThreadsNext]_vars

----------------------------------------------------------------------------
(* DoctorSenderClient: a method posts its request, wraps the answer in a
   DrsResponse (_post_request) and turns its content into what it returns *)

Bool(b) == <<"bool", b>>

(* bool(x) of a decoded content *)
Truthy(x) ==
  CASE TypeOf(x) = "str" -> Val(x) # ""
    [] TypeOf(x) \in {"dict", "list"} -> Val(x) # <<>>
    [] OTHER -> FALSE

(* the message of the else branch: an f-string divided by an f-string, the
   second one reading content once more *)
SegmentErrorMessage(content) ==
  IF IsExc(content) THEN content ELSE Exc("TypeError", NoneV)

(* lines 218-227: content == 'true', content == 'false', else *)
delete_segment(content) ==
  IF IsExc(content) THEN content
  ELSE IF PyEq(content, Str("true")) THEN Bool(TRUE)
  ELSE IF PyEq(content, Str("false")) THEN Bool(FALSE)
  ELSE IF IsExc(SegmentErrorMessage(content)) THEN SegmentErrorMessage(content)
  ELSE Exc("DrsSegmentError", SegmentErrorMessage(content))

(* lines 353-362 *)
delete_campaign(content) ==
  IF IsExc(content) THEN content
  ELSE IF PyEq(content, Str("true")) THEN Bool(TRUE)
  ELSE IF PyEq(content, Str("false")) THEN Bool(FALSE)
  ELSE IF IsExc(SegmentErrorMessage(content)) THEN SegmentErrorMessage(content)
  ELSE Exc("DrsSegmentError", SegmentErrorMessage(content))

(* lines 388-397 *)
send_campaign_test(content) ==
  IF IsExc(content) THEN content
  ELSE IF PyEq(content, Str("true")) THEN Bool(TRUE)
  ELSE IF PyEq(content, Str("false")) THEN Bool(FALSE)
  ELSE IF IsExc(SegmentErrorMessage(content)) THEN SegmentErrorMessage(content)
  ELSE Exc("DrsSegmentError", SegmentErrorMessage(content))

(* lines 270-275: if drs_response.content: ... else: raise DrsCampaignError *)
campaign(content) ==
  IF IsExc(content) THEN content
  ELSE IF Truthy(content) THEN content
  ELSE Exc("DrsCampaignError", NoneV)

(* comparator_mapping of segment_add_condition, lines 144-154, as the pairs
   of the dict in the order they are written *)
comparator_mapping ==
  << <<"<", "lt">>,
     <<">", "gt">>,
     <<"==", "lt">>,
     <<"!=", "ne">>,
     <<"<=", "lte">>,
     <<">=", "gte">>,
     <<"like", "like">>,
     <<"not like", "not like">>,
     <<"in", "in">>,
     <<"not in", "not in">>,
     <<"segment", "segment">> >>

(* comparator in comparator_mapping.keys() *)
InMapping(c) == \E j \in 1..Len(comparator_mapping) : comparator_mapping[j][1] = c

(* comparator_mapping[comparator] *)
CodeOf(c) ==
  comparator_mapping[CHOOSE j \in 1..Len(comparator_mapping) : comparator_mapping[j][1] = c][2]

(* int(x) of a decoded content: the decimal strings of the answers give their
   number, any other string ValueError, a dict or None TypeError *)
int(x) ==
  IF TypeOf(x) = "str"
  THEN CASE Val(x) = "1" -> Int(1)
         [] Val(x) = "3" -> Int(3)
         [] Val(x) = "4" -> Int(4)
         [] Val(x) = "42" -> Int(42)
         [] OTHER -> Exc("ValueError", NoneV)
  ELSE Exc("TypeError", NoneV)

(* lines 172-181: int(drs_response.content); DrsReturnError becomes
   DrsListError; the handler of ValueError builds its message by dividing
   strings *)
segment_add_condition(content) ==
  LET segment_count == IF IsExc(content) THEN content ELSE int(content)
  IN IF ~IsExc(segment_count) THEN segment_count
     ELSE IF segment_count[2] = "DrsReturnError"
          THEN Exc("DrsListError", segment_count[3])
     ELSE IF segment_count[2] = "ValueError" THEN Exc("TypeError", NoneV)
     ELSE segment_count

(* the comparators a caller passes: the documented ones and some others *)
Comparators ==
  { "<", ">", "==", "!=", "<=", ">=", "like", "not like", "in", "not in",
    "segment", "=", "eq", "lt", "" }

(* the answers the service gives a client method *)
ClientResponses ==
  Responses
  \cup { Envelope(Return(<<Rec("error", "false"), Rec("msg", "false")>>)),
         Envelope(Return(<<Rec("error", "false"), Rec("msg", "42")>>)) }

ClientInit ==
  /\ xml \in ClientResponses
  /\ dict = Unbound
  /\ pc = "new"
  /\ res_list = Unbound
  /\ i = 0
  /\ res_dict = Unbound
  /\ ele = Unbound
  /\ result = Unbound
  /\ previous = Unbound
  /\ call = "none"
  /\ comparator = Unbound
  /\ sent = Unbound

DeleteSegment ==
  /\ pc = "new"
  /\ call' = "delete_segment"
  /\ dict' = remove_env_str(xml2dict(xml))
  /\ result' = delete_segment(drs_reduce_dict(dict'))
  /\ pc' = "done"
  /\ UNCHANGED <<xml, res_list, i, res_dict, ele, previous, comparator, sent>>

DeleteCampaign ==
  /\ pc = "new"
  /\ call' = "delete_campaign"
  /\ dict' = remove_env_str(xml2dict(xml))
  /\ result' = delete_campaign(drs_reduce_dict(dict'))
  /\ pc' = "done"
  /\ UNCHANGED <<xml, res_list, i, res_dict, ele, previous, comparator, sent>>

SendCampaignTest ==
  /\ pc = "new"
  /\ call' = "send_campaign_test"
  /\ dict' = remove_env_str(xml2dict(xml))
  /\ result' = send_campaign_test(drs_reduce_dict(dict'))
  /\ pc' = "done"
  /\ UNCHANGED <<xml, res_list, i, res_dict, ele, previous, comparator, sent>>

Campaign ==
  /\ pc = "new"
  /\ call' = "campaign"
  /\ dict' = remove_env_str(xml2dict(xml))
  /\ result' = campaign(drs_reduce_dict(dict'))
  /\ pc' = "done"
  /\ UNCHANGED <<xml, res_list, i, res_dict, ele, previous, comparator, sent>>

(* segment_add_condition(segment_id, field_name, comparator, value): the
   assert of line 155 (AssertionError, or with asserts compiled out the
   KeyError of line 157) comes before the request is built and posted *)
SegmentAddCondition ==
  /\ pc = "new"
  /\ call' = "segment_add_condition"
  /\ \E c \in Comparators :
       /\ comparator' = Str(c)
       /\ IF InMapping(c)
          THEN /\ sent' = Str(CodeOf(c))
               /\ dict' = remove_env_str(xml2dict(xml))
               /\ result' = segment_add_condition(drs_reduce_dict(dict'))
          ELSE /\ sent' = Unbound
               /\ dict' = dict
               /\ result' \in {Exc("AssertionError", NoneV), Exc("KeyError", Str(c))}
  /\ pc' = "done"
  /\ UNCHANGED <<xml, res_list, i, res_dict, ele, previous>>

ClientNext ==
  DeleteSegment \/ DeleteCampaign \/ SendCampaignTest \/ Campaign \/ SegmentAddCondition

SpecClient == ClientInit /\ [][ClientNext]_vars

----------------------------------------------------------------------------
(* Properties *)

(* the payload, once line 83 has found a list *)
PayloadIsList ==
  /\ pc \in {"scan", "done"}
  /\ res_list # Unbound
  /\ TypeOf(res_list) = "list"

P == Val(res_list)

(* {"item": x} and nothing else *)
SingleItem(x) ==
  /\ TypeOf(x) = "dict"
  /\ Len(Val(x)) = 1
  /\ Val(x)[1][1] = Str("item")

ItemOf(x) == Val(x)[1][2]

(* a record {"item": {"key": K, "value": V}} *)
IsRecord(x) ==
  /\ SingleItem(x)
  /\ TypeOf(ItemOf(x)) = "dict"
  /\ Len(Val(ItemOf(x))) = 2
  /\ Val(ItemOf(x))[1][1] = Str("key")
  /\ Val(ItemOf(x))[2][1] = Str("value")

KeyOf(x) == Val(ItemOf(x))[1][2]

ValueOf(x) == Val(ItemOf(x))[2][2]

(* a record whose key and value are strings *)
ScalarRecord(x) ==
  /\ IsRecord(x)
  /\ TypeOf(KeyOf(x)) = "str"
  /\ TypeOf(ValueOf(x)) = "str"

PayloadIsRecords == PayloadIsList /\ \A n \in 1..Len(P) : IsRecord(P[n])

ErrorTrue(x) == KeyOf(x) = Str("error") /\ ValueOf(x) = Str("true")

IsMsg(x) == KeyOf(x) = Str("msg")

(* the read has ended with an exception *)
Raised == pc = "done" /\ IsExc(result)

(* the read has ended with an exception of _key_value(ele), line 93 *)
RaisedByUnwrap ==
  /\ Raised
  /\ PayloadIsList
  /\ i < Len(P)
  /\ IsRecord(P[i + 1])
  /\ IsMsg(P[i + 1])
  /\ ele = ValueOf(P[i + 1])

(* {"item": [record, ...]} with string keys and values *)
IsComposite(x) ==
  /\ SingleItem(x)
  /\ TypeOf(ItemOf(x)) = "list"
  /\ \A j \in 1..Len(Val(ItemOf(x))) : ScalarRecord(Val(ItemOf(x))[j])

F == Val(ItemOf(ele))

Last(S) == CHOOSE j \in S : \A k \in S : k <= j

(* C1, as claimed: for every payload sequence with a record error = "true" at
   any position, reading content raises DrsReturnError whose message is the
   value of the record right after it. *)
C1_AnyPosition ==
  (pc = "done" /\ PayloadIsRecords) =>
    \A n \in 1..Len(P) :
      ErrorTrue(P[n]) =>
        /\ n < Len(P)
        /\ result = Exc("DrsReturnError", ValueOf(P[n + 1]))

(* C1, amended: when the first record error = "true" of a payload of records
   is at position n, a record follows it and no msg record before it fails
   to unwrap, reading content raises DrsReturnError whose message is exactly
   the value of the record at position n + 1, whatever that record's key. *)
C1_ErrorMessageByPosition ==
  (pc = "done" /\ PayloadIsRecords) =>
    \A n \in 1..Len(P) :
      ( /\ n < Len(P)
        /\ ErrorTrue(P[n])
        /\ \A m \in 1..Len(P) :
             m < n => /\ ~ErrorTrue(P[m])
                      /\ IsMsg(P[m]) => ~IsExc(key_value(ValueOf(P[m]))) )
      => result = Exc("DrsReturnError", ValueOf(P[n + 1]))

(* an error flag after a msg record, its message under another key than msg *)
C1_Witness ==
  /\ pc = "done"
  /\ PayloadIsRecords
  /\ Len(P) = 3
  /\ IsMsg(P[1])
  /\ ErrorTrue(P[2])
  /\ KeyOf(P[3]) = Str("a")
  /\ result = Exc("DrsReturnError", Str("boom"))

(* C2: a payload of records with no msg record and no record error = "true"
   reads as the empty map. *)
C2_NoMsgIsEmptyMap ==
  ( /\ pc = "done"
    /\ PayloadIsRecords
    /\ \A n \in 1..Len(P) : ~IsMsg(P[n]) /\ ~ErrorTrue(P[n]) )
  => result = Dict(<<>>)

(* C3: a msg value {"item": {"key": K, "value": V}} with strings K and V
   unwraps to the one-entry map {K: V}, and that is what the read returns. *)
C3_SingleItemIsPair ==
  (ele # Unbound /\ ScalarRecord(ele)) =>
    /\ res_dict = Dict(<< <<KeyOf(ele), ValueOf(ele)>> >>)
    /\ (pc = "done" /\ ~IsExc(result)) => result = Dict(<< <<KeyOf(ele), ValueOf(ele)>> >>)

C3_Witness ==
  /\ pc = "done"
  /\ ele # Unbound
  /\ ScalarRecord(ele)
  /\ result = Dict(<< <<Str("count"), Str("42")>> >>)

(* C4: when the msg record of a payload of records has a string value s and
   no record is error = "true", the read returns exactly s. *)
C4_ScalarMsgUnchanged ==
  ( /\ pc = "done"
    /\ PayloadIsRecords
    /\ \A n \in 1..Len(P) : ~ErrorTrue(P[n]) )
  => \A n \in 1..Len(P) :
       ( /\ IsMsg(P[n])
         /\ TypeOf(ValueOf(P[n])) = "str"
         /\ \A m \in 1..Len(P) : IsMsg(P[m]) => m = n )
       => result = ValueOf(P[n])

C4_Witness ==
  /\ pc = "done"
  /\ PayloadIsRecords
  /\ Len(P) = 2
  /\ KeyOf(P[1]) = Str("error")
  /\ ValueOf(P[1]) = Str("false")
  /\ IsMsg(P[2])
  /\ result = Str("true")

(* C5, as claimed: a composite whose first key is not "listName" unwraps to
   {g: d}, g the first record's value and d the value of a record at a
   later position whose key is "name" or "language". *)
C5_NameAmongRemaining ==
  (ele # Unbound /\ IsComposite(ele) /\ KeyOf(F[1]) # Str("listName")) =>
    \E j \in 2..Len(F) :
      /\ KeyOf(F[j]) \in {Str("name"), Str("language")}
      /\ res_dict = Dict(<< <<ValueOf(F[1]), ValueOf(F[j])>> >>)

(* C5, amended: a composite whose first key is not "listName" unwraps to
   {g: d}, g the first record's value and d the value of the last record of
   the whole sequence, the first one included, whose key is "name" or
   "language"; when no record has such a key the unwrapping raises
   UnboundLocalError and gives no map. *)
C5_LastNameOfAll ==
  (ele # Unbound /\ IsComposite(ele) /\ KeyOf(F[1]) # Str("listName")) =>
    LET named == {j \in 1..Len(F) : KeyOf(F[j]) \in {Str("name"), Str("language")}}
        gd == Dict(<< <<ValueOf(F[1]), ValueOf(F[Last(named)])>> >>)
    IN IF named = {}
       THEN pc = "done" /\ result = Exc("UnboundLocalError", Str("v"))
       ELSE /\ res_dict = gd
            /\ (pc = "done" /\ ~IsExc(result)) => result = gd

(* languageId = 3, language = ENG, id = 3 reads as {"3": "ENG"} *)
C5_Witness ==
  /\ pc = "done"
  /\ ele # Unbound
  /\ IsComposite(ele)
  /\ Len(F) = 3
  /\ KeyOf(F[1]) = Str("languageId")
  /\ KeyOf(F[2]) = Str("language")
  /\ KeyOf(F[3]) = Str("id")
  /\ result = Dict(<< <<Str("3"), Str("ENG")>> >>)

(* C6: a composite whose first record is listName = L unwraps to {L: M}; the
   keys of M are the keys of exactly the records whose value differs from L,
   each mapped to the value of the last such record with that key, and the
   listName record is not in M. *)
C6_UserListFold ==
  (ele # Unbound /\ IsComposite(ele) /\ KeyOf(F[1]) = Str("listName")) =>
    LET L == ValueOf(F[1])
        kept == {j \in 1..Len(F) : ValueOf(F[j]) # L}
    IN /\ TypeOf(res_dict) = "dict"
       /\ Len(Val(res_dict)) = 1
       /\ Val(res_dict)[1][1] = L
       /\ LET M == Val(res_dict)[1][2]
          IN /\ TypeOf(M) = "dict"
             /\ {Val(M)[n][1] : n \in 1..Len(Val(M))} = {KeyOf(F[j]) : j \in kept}
             /\ Len(Val(M)) = Cardinality({KeyOf(F[j]) : j \in kept})
             /\ \A j \in kept :
                  Lookup(Val(M), KeyOf(F[j])) =
                    ValueOf(F[Last({k \in kept : KeyOf(F[k]) = KeyOf(F[j])})])
             /\ \A n \in 1..Len(Val(M)) : Val(M)[n] # <<Str("listName"), L>>
       /\ (pc = "done" /\ ~IsExc(result)) => result = res_dict

(* a list whose name is repeated by a later record, with a field kept *)
C6_Witness ==
  /\ pc = "done"
  /\ ele # Unbound
  /\ IsComposite(ele)
  /\ Len(F) = 3
  /\ KeyOf(F[1]) = Str("listName")
  /\ KeyOf(F[2]) = Str("name")
  /\ ValueOf(F[2]) = ValueOf(F[1])
  /\ result = Dict(<< <<Str("L"), Dict(<< <<Str("id"), Str("3")>> >>)>> >>)

(* C7: when the msg value is a sequence, no exception escapes the fold, and
   every element that fails to unwrap is in the result under its index. *)
C7_FoldNeverRaises ==
  (ele # Unbound /\ TypeOf(ele) = "list") =>
    /\ ~RaisedByUnwrap
    /\ TypeOf(res_dict) = "dict"
    /\ \A j \in 1..Len(Val(ele)) :
         IsExc(key_value(Val(ele)[j])) => HasKey(Val(res_dict), Int(j - 1))

(* C8: folding a sequence of N elements gives a map of exactly N entries. *)
C8_FoldHasNEntries ==
  (ele # Unbound /\ TypeOf(ele) = "list") =>
    /\ ~RaisedByUnwrap
    /\ TypeOf(res_dict) = "dict"
    /\ Len(Val(res_dict)) = Len(Val(ele))

(* C9: when a step of the path Envelope, Body, {ns1}webserviceResponse,
   webserviceReturn is missing, or the payload is not a sequence, the read
   fails with DrsParserError. *)
C9_BadEnvelopeIsParserError ==
  ( /\ pc = "done"
    /\ \/ IsExc(ResList(dict))
       \/ TypeOf(ResList(dict)) # "list" )
  => result = Exc("DrsParserError", NoneV)

(* C10: unwrapping a mapping without "item", or whose "item" mapping lacks
   "key" or "value", fails with DrsParserError. *)
C10_UnknownShapeIsParserError ==
  ( /\ ele # Unbound
    /\ TypeOf(ele) = "dict"
    /\ \/ ~HasKey(Val(ele), Str("item"))
       \/ /\ TypeOf(Lookup(Val(ele), Str("item"))) = "dict"
          /\ \/ ~HasKey(Val(Lookup(Val(ele), Str("item"))), Str("key"))
             \/ ~HasKey(Val(Lookup(Val(ele), Str("item"))), Str("value")) )
  => pc = "done" /\ result = Exc("DrsParserError", NoneV)

(* C11, as claimed: a single record {"item": {"key": K, "value": V}} with a
   structured V unwraps to {K: V'}, V' being the unwrapping of V. *)
C11_ValueUnwrapped ==
  ( /\ ele # Unbound
    /\ IsRecord(ele)
    /\ TypeOf(KeyOf(ele)) = "str"
    /\ TypeOf(ValueOf(ele)) \in {"dict", "list"} )
  => res_dict = Dict(<< <<KeyOf(ele), key_value(ValueOf(ele))>> >>)

(* C11, amended: a single record {"item": {"key": K, "value": V}} with a
   structured V unwraps to {K: V}, V being the parsed subtree as it is: the
   value is not unwrapped. *)
C11_ValueKeptRaw ==
  ( /\ ele # Unbound
    /\ IsRecord(ele)
    /\ TypeOf(KeyOf(ele)) = "str"
    /\ TypeOf(ValueOf(ele)) \in {"dict", "list"} )
  => /\ res_dict = Dict(<< <<KeyOf(ele), ValueOf(ele)>> >>)
     /\ (pc = "done" /\ ~IsExc(result)) => result = Dict(<< <<KeyOf(ele), ValueOf(ele)>> >>)

(* a record whose value is a sequence of two records *)
C11_Witness ==
  /\ pc = "done"
  /\ ele # Unbound
  /\ IsRecord(ele)
  /\ TypeOf(ValueOf(ele)) = "list"
  /\ Len(Val(ValueOf(ele))) = 2
  /\ \A j \in 1..2 : ScalarRecord(Val(ValueOf(ele))[j])
  /\ result = Dict(<< <<Str("a"), ValueOf(ele)>> >>)

(* the element e and every element below it *)
RECURSIVE Elements(_)
Elements(e) ==
  {e} \cup UNION {Elements(e.children[j]) : j \in 1..Len(e.children)}

TagsOf(e) == {e.children[j].tag : j \in 1..Len(e.children)}

RepeatsATag(e) == Cardinality(TagsOf(e)) < Len(e.children)

(* the webserviceReturn elements of the answer *)
ReturnElements == {e \in Elements(xml) : e.tag = "webserviceReturn"}

(* C12: an element whose children repeat a tag parses to a sequence with one
   element per child, in document order, element j being the single-entry
   mapping {tag of child j: parse(child j)}; the payload that a read scans is
   such a sequence of the children of webserviceReturn.  (The elements are
   looked at once the answer is parsed, the payload as each read enters its
   loop: neither changes afterwards.) *)
C12_RepeatedTagsGiveSequence ==
    /\ pc = "idle" =>
       \A e \in Elements(xml) :
         RepeatsATag(e) =>
           /\ TypeOf(parse(e)) = "list"
           /\ Len(Val(parse(e))) = Len(e.children)
           /\ \A j \in 1..Len(e.children) :
                Val(parse(e))[j] =
                  Dict(<< <<Str(e.children[j].tag), parse(e.children[j])>> >>)
    /\ (PayloadIsList /\ pc = "scan" /\ i = 0) =>
         \E r \in ReturnElements :
           /\ RepeatsATag(r)
           /\ Len(P) = Len(r.children)
           /\ \A j \in 1..Len(P) :
                P[j] = Dict(<< <<Str(r.children[j].tag), parse(r.children[j])>> >>)

(* a payload of two records, the value of the second one with three
   children and two tags: item, item, foo in some order *)
C12_Witness ==
  /\ pc = "scan"
  /\ i = 0
  /\ PayloadIsRecords
  /\ Len(P) = 2
  /\ TypeOf(ValueOf(P[2])) = "list"
  /\ Len(Val(ValueOf(P[2]))) = 3
  /\ \E j \in 1..3 : Val(ValueOf(P[2]))[j] = Dict(<< <<Str("foo"), Str("x")>> >>)
  /\ \E j \in 1..3 : SingleItem(Val(ValueOf(P[2]))[j])

(* C13: an element with children whose tags are pairwise distinct parses to
   a mapping with one entry per child, in document order, each tag mapped to
   parse of that child; an element with children parses to a mapping exactly
   when its child tags are pairwise distinct, and to a sequence otherwise.
   The records of the payload are such mappings. *)
C13_DistinctTagsGiveMapping ==
    /\ pc = "idle" =>
       \A e \in Elements(xml) :
         /\ (Len(e.children) > 0 /\ ~RepeatsATag(e)) =>
              parse(e) = Dict([j \in 1..Len(e.children) |->
                                 <<Str(e.children[j].tag), parse(e.children[j])>>])
         /\ Len(e.children) > 0 =>
              /\ TypeOf(parse(e)) = "dict" <=> ~RepeatsATag(e)
              /\ TypeOf(parse(e)) = "list" <=> RepeatsATag(e)
    /\ (PayloadIsList /\ pc = "scan" /\ i = 0) =>
         \E r \in ReturnElements :
           /\ Len(P) = Len(r.children)
           /\ \A j \in 1..Len(P) :
                LET c == r.children[j]
                IN (Len(c.children) > 0 /\ ~RepeatsATag(c)) =>
                     Val(P[j])[1][2] =
                       Dict([k \in 1..Len(c.children) |->
                               <<Str(c.children[k].tag), parse(c.children[k])>>])

(* a payload of two records, the value of the second one with the two
   children item and foo: a two-entry mapping *)
C13_Witness ==
  /\ pc = "scan"
  /\ i = 0
  /\ PayloadIsRecords
  /\ Len(P) = 2
  /\ TypeOf(ValueOf(P[2])) = "dict"
  /\ Len(Val(ValueOf(P[2]))) = 2
  /\ Val(ValueOf(P[2]))[1][1] \in {Str("item"), Str("foo")}
  /\ Val(ValueOf(P[2]))[2][1] \in {Str("item"), Str("foo")}

(* the answer has the shape {ns}Envelope / {ns}Body / {ns1}webserviceResponse /
   webserviceReturn, whatever else the Envelope holds *)
EnvelopeShape ==
  /\ xml.tag = EnvNs \o "Envelope"
  /\ ~RepeatsATag(xml)
  /\ \E b \in 1..Len(xml.children) :
       /\ xml.children[b].tag = EnvNs \o "Body"
       /\ Len(xml.children[b].children) = 1
       /\ xml.children[b].children[1].tag = "{ns1}webserviceResponse"
       /\ Len(xml.children[b].children[1].children) = 1
       /\ xml.children[b].children[1].children[1].tag = "webserviceReturn"

(* C14: after namespace normalisation of an answer of the envelope shape the
   keys "Envelope" and "Body" exist and the payload is reached, whichever
   other children the Envelope has and in whichever order. *)
C14_EnvelopeKeysExist ==
  (pc # "new" /\ EnvelopeShape) =>
    /\ HasKey(Val(dict), Str("Envelope"))
    /\ HasKey(Val(Lookup(Val(dict), Str("Envelope"))), Str("Body"))
    /\ ~IsExc(ResList(dict))

(* C15: reduction is pure: a read leaves self.dict as it found it, and a
   read that follows another on the same DrsResponse ends with the same
   result, or the same failure, as the one before. *)
C15_ReadsArePure ==
  [][ /\ (pc # "new" => dict' = dict)
      /\ (pc' = "done" /\ previous' # Unbound => result' = previous')
    ]_vars

(* a second read of a structured message has ended *)
C15_Witness ==
  /\ pc = "done"
  /\ previous # Unbound
  /\ result = previous
  /\ TypeOf(result) = "dict"
  /\ i = 2

(* C16: two threads decode two answers with their steps interleaved in any
   order: each thread's normalised tree and each thread's result are those
   of the decode of its own answer alone. *)
C16_ThreadsDecodeAlone ==
  \A t \in Threads :
    /\ pc[t] \in {"idle", "scan", "done"} => dict[t] = remove_env_str(xml2dict(xml[t]))
    /\ pc[t] = "done" => result[t] = Decode(xml[t])

(* thread 1 has its result while thread 2, decoding another answer with
   another result, is in the middle of its read *)
C16_Witness ==
  /\ pc[1] = "done"
  /\ TypeOf(result[1]) = "dict"
  /\ pc[2] = "scan"
  /\ i[2] = 1
  /\ xml[1] # xml[2]
  /\ Decode(xml[2]) # result[1]

(* C17: delete_segment, delete_campaign and send_campaign_test return True
   for the decoded content 'true', False for 'false', and raise
   DrsSegmentError carrying the response message for every other decoded
   content. *)
C17_OtherContentIsSegmentError ==
  (pc = "done" /\ call \in {"delete_segment", "delete_campaign", "send_campaign_test"}
     /\ ~IsExc(Decode(xml))) =>
    /\ Decode(xml) = Str("true") => result = Bool(TRUE)
    /\ Decode(xml) = Str("false") => result = Bool(FALSE)
    /\ Decode(xml) \notin {Str("true"), Str("false")} =>
         /\ IsExc(result)
         /\ result[2] = "DrsSegmentError"

(* C18: campaign returns an empty dict when the decoded content is empty,
   and the decoded content otherwise. *)
C18_EmptyContentIsEmptyDict ==
  (pc = "done" /\ call = "campaign" /\ ~IsExc(Decode(xml))) =>
    IF Decode(xml) \in {Str(""), Dict(<<>>)}
    THEN result = Dict(<<>>)
    ELSE result = Decode(xml)

(* C19: whenever the payload holds a record error = "true" with a record
   after it, reading content raises DrsReturnError, wherever a msg record
   sits and whatever shape its value has. *)
C19_ErrorFlagAlwaysReturnError ==
  (pc = "done" /\ PayloadIsRecords) =>
    \A n \in 1..Len(P) :
      (ErrorTrue(P[n]) /\ n < Len(P)) =>
        /\ IsExc(result)
        /\ result[2] = "DrsReturnError"

(* {"item": [record, ...]} of the generic case, no record of which has the
   key "name" or "language" *)
NoNameComposite(x) ==
  /\ IsComposite(x)
  /\ KeyOf(Val(ItemOf(x))[1]) # Str("listName")
  /\ \A j \in 1..Len(Val(ItemOf(x))) :
       KeyOf(Val(ItemOf(x))[j]) \notin {Str("name"), Str("language")}

(* C20: a generic composite none of whose records has the key "name" or
   "language" makes the unwrapping raise: the read of a msg value that is
   such a composite ends with UnboundLocalError for v, and the read of a msg
   value that is a sequence holding such a composite ends with an exception,
   never with a map, whatever the elements before it were. *)
C20_NoNameCompositeRaises ==
  ele # Unbound =>
    /\ (TypeOf(ele) = "dict" /\ NoNameComposite(ele)) =>
         /\ pc = "done"
         /\ result = Exc("UnboundLocalError", Str("v"))
         /\ res_dict = Unbound
    /\ (TypeOf(ele) = "list"
          /\ \E j \in 1..Len(Val(ele)) :
               TypeOf(Val(ele)[j]) = "dict" /\ NoNameComposite(Val(ele)[j])) =>
         /\ pc = "done"
         /\ IsExc(result)
         /\ res_dict = Unbound
         /\ (\A j \in 1..Len(Val(ele)) : TypeOf(Val(ele)[j]) = "dict" /\ IsComposite(Val(ele)[j]))
              => result = Exc("UnboundLocalError", Str("v"))

(* a sequence of two composites: the first has a name, the second has not *)
C20_Witness ==
  /\ pc = "done"
  /\ ele # Unbound
  /\ TypeOf(ele) = "list"
  /\ Len(Val(ele)) = 2
  /\ IsComposite(Val(ele)[1])
  /\ ~NoNameComposite(Val(ele)[1])
  /\ NoNameComposite(Val(ele)[2])
  /\ result = Exc("UnboundLocalError", Str("v"))

(* C21: segment_add_condition sends the accepted comparators as API codes
   injectively: the code sent for an accepted comparator is the code of no
   other accepted comparator; and for a comparator outside the accepted set
   the call fails and no request is sent. *)
C21_ComparatorCodesInjective ==
  (pc = "done" /\ call = "segment_add_condition") =>
    IF Val(comparator) \in { "<", ">", "==", "!=", "<=", ">=", "like", "not like",
                             "in", "not in", "segment" }
    THEN /\ sent # Unbound
         /\ \A c \in { "<", ">", "==", "!=", "<=", ">=", "like", "not like",
                       "in", "not in", "segment" } :
              c # Val(comparator) => Str(CodeOf(c)) # sent
    ELSE /\ sent = Unbound
         /\ dict = Unbound
         /\ IsExc(result)

====
